---- MODULE Spec2Model ----
(***************************************************************************)
(* AuditAgent: the audit orchestration (src/audit_agent.py), its summary   *)
(* aggregation and risk score, the economic analysis pipeline              *)
(* (src/economic/price_comparator.py, src/economic/arbitrage_detector.py)  *)
(* and the profit calculator (src/sandbox/profit_calculator.py).           *)
(*                                                                         *)
(* Numbers.  Python floats are modelled as exact values.  A risk score is  *)
(* held in half points (the weight 0.5 is 1 half point, the cap 100.0 is   *)
(* 200 half points), so every score of the model is an integer.  A price  *)
(* or an amount is the exact fraction n/d its float stands for.            *)
(***************************************************************************)
EXTENDS Integers, Sequences, FiniteSets, TLC

VARIABLES
    results,      \* AuditAgent.results: contract, analyzers, vulnerabilities, summary
    pc,           \* position of the running call
    call,         \* the arguments of the running call and what they refer to
    exc,          \* the exception the call raised to its caller, or "none"
    discrepancies,\* the list compare_prices returned
    analysis,     \* the dict analyze_contract_for_arbitrage returned
    ret,          \* what a function called on its own returned
    op,           \* history: what has been done so far, for stating properties
    anvil_process,\* ChainForker.anvil_process: the Popen object, or None
    fork_url,     \* ChainForker.fork_url
    fork_block,   \* ChainForker.fork_block
    processes,    \* the Anvil processes started so far, by pid: port and state
    objects,      \* the result dicts created so far; the index is the identity
    self_results, \* the dict AuditAgent.results refers to
    all_results   \* audit_directory's list all_results, of references

econVars == <<discrepancies, analysis, ret>>

forkVars == <<anvil_process, fork_url, fork_block, processes>>

dirVars == <<objects, self_results, all_results>>

vars == <<results, pc, call, exc, discrepancies, analysis, ret, op,
          anvil_process, fork_url, fork_block, processes,
          objects, self_results, all_results>>

(***************************************************************************)
(* Bounds                                                                  *)
(***************************************************************************)
\* findings added to a starting list in the aggregation on its own
MaxAdded == 4

\* findings one analyzer reports in one audit
MaxReported == 1

\* the largest base of a contract price base * 10**exp
MaxBase == 1

\* contract prices extracted from one contract
MaxContractPrices == 1

\* market quotes of one token
MaxQuotes == 4

\* contract prices in one call of compare_prices on its own
MaxCompared == 2

\* market quotes in one call of compare_prices on its own
MaxMarket == 1

\* tenths of a dollar a contract price lies below or above one dollar
MaxStep == 5

\* discrepancies in one call of detect_flash_loan_arbitrage on its own
MaxDiscrepancies == 2

\* statements of one contract source, one to a line
MaxLines == 4

\* the largest base of a balance, a loan or a revenue base * 10**exp, in wei
MaxWei == 5

(***************************************************************************)
(* Findings.  A finding is a dict; the only key the aggregation reads is   *)
(* 'severity', which may be absent.                                        *)
(***************************************************************************)
SeverityLevels == <<"critical", "high", "medium", "low", "informational">>

KnownSeverities == {SeverityLevels[i] : i \in 1..Len(SeverityLevels)}

\* severity strings a finding may carry: the five levels, a level written
\* in another case, and a string that is no level in any case
SeverityStrings == KnownSeverities \cup {"High", "unknown"}

FindingsWithSeverity == {[type |-> "finding", severity |-> s] : s \in SeverityStrings}

FindingWithoutSeverity == [type |-> "finding"]

Findings == FindingsWithSeverity \cup {FindingWithoutSeverity}

\* str.lower()
lower(s) == IF s = "High" THEN "high" ELSE s

\* dict.get(key, default)
get(d, key, default) == IF key \in DOMAIN d THEN d[key] ELSE default

(***************************************************************************)
(* AuditAgent._calculate_risk_score                                        *)
(***************************************************************************)
\* weights, in half points
weights ==
    [critical |-> 50, high |-> 20, medium |-> 10, low |-> 4, informational |-> 1]

\* the cap 100.0
MaxScore == 100

RECURSIVE SumWeighted(_, _)
\* sum(count * weights[severity] for severity, count in severity_counts.items()),
\* the items taken in the dict's insertion order, from the i-th on
SumWeighted(severity_counts, i) ==
    IF i > Len(SeverityLevels) THEN 0
    ELSE severity_counts[SeverityLevels[i]] * weights[SeverityLevels[i]]
         + SumWeighted(severity_counts, i + 1)

min(a, b) == IF b < a THEN b ELSE a

\* the score with the weight 0.5 of informational findings lost
calculate_risk_score_int_weights(severity_counts) ==
    min(SumWeighted(severity_counts, 1) - severity_counts["informational"],
        2 * MaxScore)

\* the score without the cap
calculate_risk_score_uncapped(severity_counts) ==
    SumWeighted(severity_counts, 1)

calculate_risk_score(severity_counts) ==
    min(SumWeighted(severity_counts, 1), 2 * MaxScore)

(***************************************************************************)
(* AuditAgent._generate_summary                                            *)
(***************************************************************************)
ZeroCounts == [s \in KnownSeverities |-> 0]

\* the body of the loop over the vulnerabilities, for one of them
CountOne(severity_counts, vuln) ==
    LET severity == lower(get(vuln, "severity", "low"))
    IN  IF severity \in DOMAIN severity_counts
        THEN [severity_counts EXCEPT ![severity] = @ + 1]
        ELSE severity_counts

RECURSIVE CountSeverities_break(_, _, _)
\* the loop left at the first finding whose severity is no key of the counts
CountSeverities_break(vulnerabilities, i, severity_counts) ==
    IF i > Len(vulnerabilities) THEN severity_counts
    ELSE IF lower(get(vulnerabilities[i], "severity", "low"))
                \notin DOMAIN severity_counts
         THEN severity_counts
         ELSE CountSeverities_break(vulnerabilities, i + 1,
                                    CountOne(severity_counts, vulnerabilities[i]))

RECURSIVE CountSeverities(_, _, _)
\* the loop over the vulnerabilities, from the i-th on
CountSeverities(vulnerabilities, i, severity_counts) ==
    IF i > Len(vulnerabilities) THEN severity_counts
    ELSE CountSeverities(vulnerabilities, i + 1,
                         CountOne(severity_counts, vulnerabilities[i]))

\* the results after self._generate_summary()
generate_summary(res) ==
    LET vulnerabilities == get(res, "vulnerabilities", <<>>)
        severity_counts == CountSeverities(vulnerabilities, 1, ZeroCounts)
    IN  [res EXCEPT !.summary =
            [total_vulnerabilities |-> Len(vulnerabilities),
             severity              |-> severity_counts,
             analyzers_run         |-> DOMAIN get(res, "analyzers", <<>>),
             risk_score            |-> calculate_risk_score(severity_counts)]]

(***************************************************************************)
(* The aggregation on its own: _generate_summary applied to lists of       *)
(* findings.  A list starts empty, or with the four critical findings that *)
(* bring the score to the cap; up to MaxAdded findings are appended to it, *)
(* one at a time, and the appended findings are reordered by exchanging    *)
(* neighbours.                                                             *)
(***************************************************************************)
\* Python's None, a value equal to no dict, list or number
None == [none |-> TRUE]

NoCall == [name |-> "none"]

\* no ChainForker is in use: the fields as __init__ leaves them
NoForker ==
    /\ anvil_process = None
    /\ fork_url = None
    /\ fork_block = None
    /\ processes = <<>>

\* no directory is being audited
NoDirectory ==
    /\ objects = <<>>
    /\ self_results = 0
    /\ all_results = <<>>

EmptyResults ==
    [contract |-> "contract.sol", analyzers |-> <<>>,
     vulnerabilities |-> <<>>, summary |-> <<>>]

CriticalFinding == [type |-> "finding", severity |-> "critical"]

StartingLists ==
    {<<>>, <<CriticalFinding, CriticalFinding, CriticalFinding, CriticalFinding>>}

AggInit ==
    /\ NoForker
    /\ NoDirectory
    /\ \E l \in StartingLists :
          results = generate_summary([EmptyResults EXCEPT !.vulnerabilities = l])
    /\ pc = "aggregate"
    /\ call = NoCall
    /\ exc = "none"
    /\ discrepancies = <<>>
    /\ analysis = None
    /\ ret = None
    /\ op = [name |-> "start", added |-> 0]

\* one more finding is reported and the summary is generated over the list
AddFinding(f) ==
    /\ pc = "aggregate"
    /\ op.added < MaxAdded
    /\ results' = generate_summary(
                     [results EXCEPT !.vulnerabilities = Append(@, f)])
    /\ op' = [name |-> "add", added |-> op.added + 1]
    /\ UNCHANGED <<pc, call, exc, econVars, forkVars, dirVars>>

\* the same findings reported in another order (neighbours i and i+1
\* exchanged) and the summary generated over the list
SwapFindings(i) ==
    /\ pc = "aggregate"
    /\ results.vulnerabilities[i] # results.vulnerabilities[i + 1]
    /\ results' = generate_summary(
                     [results EXCEPT !.vulnerabilities =
                         [@ EXCEPT ![i] = results.vulnerabilities[i + 1],
                                   ![i + 1] = results.vulnerabilities[i]]])
    /\ op' = [op EXCEPT !.name = "swap"]
    /\ UNCHANGED <<pc, call, exc, econVars, forkVars, dirVars>>

\* the appended findings are the ones reordered: with the four equal findings
\* of a starting list in front, the others take every order behind them
AggNext ==
    \/ \E f \in Findings : AddFinding(f)
    \/ \E i \in (Len(results.vulnerabilities) - op.added + 1)
                    ..(Len(results.vulnerabilities) - 1) : SwapFindings(i)

SpecAgg == AggInit /\ [][AggNext]_vars

(***************************************************************************)
(* Properties of the aggregation                                           *)
(***************************************************************************)
summary == results.summary

counts == results.summary.severity

\* the number of findings of the list that satisfy P
NumberOf(vulnerabilities, P(_)) ==
    Cardinality({i \in 1..Len(vulnerabilities) : P(vulnerabilities[i])})

SeverityMissing(vuln) == "severity" \notin DOMAIN vuln

\* the severity is a string that is none of the five levels, in any case
SeverityUnknown(vuln) ==
    "severity" \in DOMAIN vuln /\ lower(vuln.severity) \notin KnownSeverities

SeverityLow(vuln) == "severity" \in DOMAIN vuln /\ lower(vuln.severity) = "low"

HistogramTotal ==
    counts["critical"] + counts["high"] + counts["medium"] + counts["low"]
        + counts["informational"]

\* C1: for every list of findings, those of missing or unknown severity
\* included, the five counts of the severity histogram add up to
\* total_vulnerabilities.
C1_HistogramSumsToTotal ==
    pc = "aggregate" => HistogramTotal = summary.total_vulnerabilities

\* C2: a finding whose severity is missing, or is no known level, is counted
\* in the 'low' bucket: the bucket holds the findings of severity low, those
\* of missing severity and those of unknown severity.
C2_UnknownCountedAsLow ==
    pc = "aggregate" =>
        counts["low"] = NumberOf(results.vulnerabilities, SeverityLow)
                        + NumberOf(results.vulnerabilities, SeverityMissing)
                        + NumberOf(results.vulnerabilities, SeverityUnknown)

\* 25*critical + 10*high + 5*medium + 2*low + 0.5*informational, in half points
WeightedSum ==
    50 * counts["critical"] + 20 * counts["high"] + 10 * counts["medium"]
        + 4 * counts["low"] + counts["informational"]

\* C7: risk_score is min(100, 25*critical + 10*high + 5*medium + 2*low +
\* 0.5*informational) over the histogram counts, and lies between 0 and 100.
C7_RiskScoreFormula ==
    pc = "aggregate" =>
        /\ summary.risk_score = (IF WeightedSum > 200 THEN 200 ELSE WeightedSum)
        /\ 0 <= summary.risk_score
        /\ summary.risk_score <= 200

\* the weighted sum exceeds the cap and holds an odd number of half points'
\* worth of informational findings
C7_Witness ==
    /\ pc = "aggregate"
    /\ WeightedSum > 200
    /\ counts["informational"] = 1
    /\ summary.risk_score = 200

\* the step appends one finding to the list
Appended ==
    \E f \in Findings : results'.vulnerabilities = Append(results.vulnerabilities, f)

\* C8: adding one more finding of any severity never lowers risk_score, and a
\* score that has reached 100 stays at 100 for every further finding.
C8_ScoreMonotone ==
    [][(pc = "aggregate" /\ Appended) =>
          /\ results'.summary.risk_score >= summary.risk_score
          /\ (summary.risk_score = 200 => results'.summary.risk_score = 200)]_vars

\* two findings were added to a list whose score was at the cap already
C8_Witness ==
    /\ pc = "aggregate"
    /\ op.name = "add"
    /\ op.added >= 2
    /\ Len(results.vulnerabilities) >= 6
    /\ summary.risk_score = 200

\* the step leaves the multiset of findings as it is and changes their order
Permuted ==
    /\ results'.vulnerabilities # results.vulnerabilities
    /\ Len(results'.vulnerabilities) = Len(results.vulnerabilities)
    /\ \A f \in Findings :
          Cardinality({i \in 1..Len(results.vulnerabilities) :
                          results.vulnerabilities[i] = f})
          = Cardinality({i \in 1..Len(results.vulnerabilities) :
                          results'.vulnerabilities[i] = f})

\* C9: the aggregation is order-independent: a permutation of the findings
\* leaves total_vulnerabilities, the histogram and risk_score as they are.
C9_OrderIndependent ==
    [][(pc = "aggregate" /\ Permuted) =>
          /\ results'.summary.total_vulnerabilities = summary.total_vulnerabilities
          /\ results'.summary.severity = summary.severity
          /\ results'.summary.risk_score = summary.risk_score]_vars

\* a list of findings of different severities, below the cap, was reordered
C9_Witness ==
    /\ pc = "aggregate"
    /\ op.name = "swap"
    /\ Len(results.vulnerabilities) >= 3
    /\ summary.risk_score < 200
    /\ counts["critical"] >= 1
    /\ counts["informational"] >= 1

(***************************************************************************)
(* AuditAgent.audit_contract                                               *)
(*                                                                         *)
(* The analyzers, the detector and the report generator are called code:   *)
(* each call either returns or raises, and what it returns is an input.    *)
(***************************************************************************)
\* the findings an analyzer reports in the audit
AuditFindings == {CriticalFinding, FindingWithoutSeverity}

RECURSIVE ListsUpTo(_, _)
\* the lists of at most n elements of S
ListsUpTo(S, n) ==
    IF n = 0 THEN {<<>>}
    ELSE LET shorter == ListsUpTo(S, n - 1)
         IN  shorter \cup {Append(l, x) : l \in shorter, x \in S}

Reported == ListsUpTo(AuditFindings, MaxReported)

\* what a called analyzer does: it raises, or it returns its findings
Outcomes == {[raises |-> TRUE]} \cup {[raises |-> FALSE, findings |-> l] : l \in Reported}

\* the record stored for an analyzer that raised: {'error': str(e)}
ErrorRecord == [error |-> "failed"]

\* results['analyzers'][name] = value
SetAnalyzer(res, name, value) ==
    [res EXCEPT !.analyzers =
        [k \in DOMAIN res.analyzers \cup {name} |->
            IF k = name THEN value ELSE res.analyzers[k]]]

\* the statements of audit_contract in the order they run
PhaseOrder == <<"slither", "mythril", "detect", "ai", "summary", "report">>

\* the summary generated before the AI phase
after_summary_before_ai(p) ==
    CASE p = "slither" -> "mythril"
      [] p = "mythril" -> "detect"
      [] p = "detect"  -> "summary"
      [] p = "summary" -> "ai"
      [] p = "ai"      -> "report"
      [] OTHER         -> "returned"

\* the statement that follows phase p
after(p) ==
    LET i == CHOOSE j \in 1..Len(PhaseOrder) : PhaseOrder[j] = p
    IN  IF i < Len(PhaseOrder) THEN PhaseOrder[i + 1] ELSE "returned"

\* the history after phase p has run
Ran(p, raised) ==
    [op EXCEPT !.ran = Append(@, p),
               !.raised = IF raised THEN @ \cup {p} ELSE @]

AuditInit ==
    /\ NoForker
    /\ NoDirectory
    /\ results = <<>>
    /\ pc = "idle"
    /\ call = NoCall
    /\ exc = "none"
    /\ discrepancies = <<>>
    /\ analysis = None
    /\ ret = None
    /\ op = [ran |-> <<>>, raised |-> {}, pattern |-> <<>>]

\* audit_contract is called: the check of the path and the initial results
audit_contract(exists, output_dir) ==
    /\ pc = "idle"
    /\ call' = [name |-> "audit_contract", exists |-> exists,
                output_dir |-> output_dir]
    /\ IF ~exists
       THEN /\ exc' = "FileNotFoundError"
            /\ pc' = "raised"
            /\ UNCHANGED results
       ELSE /\ results' = [contract |-> "contract.sol", analyzers |-> <<>>,
                           vulnerabilities |-> <<>>, summary |-> <<>>]
            /\ pc' = PhaseOrder[1]
            /\ UNCHANGED exc
    /\ UNCHANGED <<op, econVars, forkVars, dirVars>>

\* Phase 1: Slither
Phase1Slither(outcome) ==
    /\ pc = "slither"
    /\ results' = SetAnalyzer(results, "slither",
                     IF outcome.raises THEN ErrorRecord
                     ELSE [success |-> TRUE, detectors |-> outcome.findings])
    /\ op' = Ran("slither", outcome.raises)
    /\ pc' = after("slither")
    /\ UNCHANGED <<call, exc, econVars, forkVars, dirVars>>

\* Phase 2: Mythril
Phase2Mythril(outcome) ==
    /\ pc = "mythril"
    /\ results' = SetAnalyzer(results, "mythril",
                     IF outcome.raises THEN ErrorRecord
                     ELSE [success |-> TRUE, issues |-> outcome.findings])
    /\ op' = Ran("mythril", outcome.raises)
    /\ pc' = after("mythril")
    /\ UNCHANGED <<call, exc, econVars, forkVars, dirVars>>

\* VulnerabilityDetector.detect(contract_path, results): the findings of the
\* analyzers that have run, followed by the patterns it detects itself
detect(res, patterns) ==
    get(get(res.analyzers, "slither", <<>>), "detectors", <<>>)
        \o get(get(res.analyzers, "mythril", <<>>), "issues", <<>>)
        \o patterns

\* Phase 3: vulnerability pattern detection
Phase3Detect(outcome) ==
    /\ pc = "detect"
    /\ results' = [results EXCEPT !.vulnerabilities =
                     IF outcome.raises THEN <<>>
                     ELSE detect(results, outcome.findings)]
    /\ op' = [Ran("detect", outcome.raises) EXCEPT !.pattern =
                     IF outcome.raises THEN <<>> ELSE outcome.findings]
    /\ pc' = after("detect")
    /\ UNCHANGED <<call, exc, econVars, forkVars, dirVars>>

\* Phase 4: AI analysis
Phase4AI(outcome) ==
    /\ pc = "ai"
    /\ results' = SetAnalyzer(results, "ai",
                     IF outcome.raises THEN ErrorRecord
                     ELSE [success |-> TRUE, vulnerabilities |-> outcome.findings,
                           recommendations |-> <<>>])
    /\ op' = Ran("ai", outcome.raises)
    /\ pc' = after("ai")
    /\ UNCHANGED <<call, exc, econVars, forkVars, dirVars>>

\* self._generate_summary()
Summary ==
    /\ pc = "summary"
    /\ results' = generate_summary(results)
    /\ op' = Ran("summary", FALSE)
    /\ pc' = after("summary")
    /\ UNCHANGED <<call, exc, econVars, forkVars, dirVars>>

\* the report, when an output directory is given, and the return
Report(raises) ==
    /\ pc = "report"
    /\ IF call.output_dir = None
       THEN /\ ~raises
            /\ pc' = after("report")
            /\ UNCHANGED <<results, exc>>
       ELSE IF raises
       THEN /\ exc' = "ReportError"
            /\ pc' = "raised"
            /\ UNCHANGED results
       ELSE /\ results' = [k \in DOMAIN results \cup {"report_path"} |->
                             IF k = "report_path" THEN "reports/audit_report.json"
                             ELSE results[k]]
            /\ pc' = after("report")
            /\ UNCHANGED exc
    /\ op' = Ran("report", raises)
    /\ UNCHANGED <<call, econVars, forkVars, dirVars>>

AuditNext ==
    \/ \E exists \in BOOLEAN, output_dir \in {None, [path |-> "reports"]} :
          audit_contract(exists, output_dir)
    \/ \E outcome \in Outcomes : Phase1Slither(outcome)
    \/ \E outcome \in Outcomes : Phase2Mythril(outcome)
    \/ \E outcome \in Outcomes : Phase3Detect(outcome)
    \/ \E outcome \in Outcomes : Phase4AI(outcome)
    \/ Summary
    \/ \E raises \in BOOLEAN : Report(raises)

Spec == AuditInit /\ [][AuditNext]_vars

(***************************************************************************)
(* Properties of audit_contract                                            *)
(***************************************************************************)
AnalyzerPhases == {"slither", "mythril", "detect", "ai"}

\* the phases that have run so far
PhasesRun == {op.ran[i] : i \in 1..Len(op.ran)}

\* the key under which the outcome of an analyzer phase is kept in
\* results['analyzers']
AnalyzerKey(p) == IF p = "detect" THEN "vulnerability_detector" ELSE p

\* the results hold an error record for phase p
HasErrorRecord(p) ==
    /\ AnalyzerKey(p) \in DOMAIN results.analyzers
    /\ "error" \in DOMAIN results.analyzers[AnalyzerKey(p)]

SummaryGenerated == "summary" \in DOMAIN results /\ results.summary # <<>>

\* C3: when a phase raises, every other phase still runs, the call returns a
\* result with a summary, and the failed phase is stored as an error record
\* in the results.
C3_FailureIsolatedAndRecorded ==
    (pc = "returned" /\ op.raised # {}) =>
        /\ AnalyzerPhases \subseteq PhasesRun
        /\ SummaryGenerated
        /\ \A p \in op.raised : HasErrorRecord(p)

\* the findings every analyzer that ran has produced: static, symbolic,
\* pattern detection and AI
AllFindings ==
    get(get(results.analyzers, "slither", <<>>), "detectors", <<>>)
        \o get(get(results.analyzers, "mythril", <<>>), "issues", <<>>)
        \o op.pattern
        \o get(get(results.analyzers, "ai", <<>>), "vulnerabilities", <<>>)

\* C4: the summary is a fold over the union of the finding lists of all
\* analyzers: total_vulnerabilities and the histogram count every finding of
\* every analyzer that ran.
C4_SummaryCountsAllFindings ==
    pc = "returned" =>
        /\ results.summary.total_vulnerabilities = Len(AllFindings)
        /\ results.summary.severity = CountSeverities(AllFindings, 1, ZeroCounts)

\* every analyzer phase has finished: it has run, and the three analyzers
\* have their entry, a result or an error record, in the results
AllAnalyzersFinished ==
    /\ AnalyzerPhases \subseteq PhasesRun
    /\ {"slither", "mythril", "ai"} \subseteq DOMAIN results.analyzers

C6_RaisesOnlyForMissingFile ==
    pc = "raised" => (~call.exists /\ op.ran = <<>>)

(***************************************************************************)
(* Exact numbers.  A float is modelled as the fraction n/d it stands for,  *)
(* in lowest terms with d > 0; rounding is not modelled.                   *)
(***************************************************************************)
RECURSIVE GCD(_, _)
GCD(a, b) == IF b = 0 THEN a ELSE GCD(b, a % b)

Abs(x) == IF x < 0 THEN -x ELSE x

\* the fraction n/d, d # 0
Rat(n, d) ==
    LET g == GCD(Abs(n), Abs(d))
        s == IF d < 0 THEN -1 ELSE 1
    IN  [n |-> (s * n) \div g, d |-> (s * d) \div g]

Num(k) == [n |-> k, d |-> 1]

RAdd(a, b) ==
    LET g == GCD(a.d, b.d)
    IN  Rat(a.n * (b.d \div g) + b.n * (a.d \div g), (a.d \div g) * b.d)

RSub(a, b) == RAdd(a, [n |-> -b.n, d |-> b.d])

RMul(a, b) ==
    LET g1 == GCD(Abs(a.n), b.d)
        g2 == GCD(Abs(b.n), a.d)
    IN  Rat((a.n \div g1) * (b.n \div g2), (a.d \div g2) * (b.d \div g1))

\* a / b, b # 0
RDiv(a, b) == RMul(a, Rat(b.d, b.n))

RLt(a, b) == a.n * b.d < b.n * a.d

RLe(a, b) == a.n * b.d <= b.n * a.d

RAbs(a) == [n |-> Abs(a.n), d |-> a.d]

IsZero(a) == a.n = 0

RECURSIVE Pow10(_)
Pow10(k) == IF k = 0 THEN 1 ELSE 10 * Pow10(k - 1)

\* what a called function does: it returns a value or raises an exception
Return(v) == [raised |-> FALSE, value |-> v]

Raise(e) == [raised |-> TRUE, exc |-> e]

(***************************************************************************)
(* PriceComparator.compare_prices                                          *)
(***************************************************************************)
\* DEFAULT_THRESHOLD = 0.10
threshold == Rat(10, 100)

\* the 18 decimals of 1e18
Decimals == 18

\* the float r * 10**e, e < 0, of a fraction r # 0: a number too small to be
\* held as a fraction of two machine integers
Scaled(r, e) == [n |-> r.n, d |-> r.d, e |-> e]

IsScaled(x) == "e" \in DOMAIN x

\* float(contract_value) / 1e18: contract_value is the integer base * 10**exp
\* of a price pattern, or the float (a fraction) of a pool ratio
contract_usd_of(value) ==
    IF "exp" \in DOMAIN value
    THEN IF value.exp >= Decimals
         THEN Num(value.base * Pow10(value.exp - Decimals))
         ELSE Rat(value.base, Pow10(Decimals - value.exp))
    ELSE IF IsZero(value) THEN Num(0)
    ELSE Scaled(value, -Decimals)

\* contract_usd - avg_market_price in double precision, avg_market_price > 0:
\* a contract_usd of the order of 1e-18 is less than half a unit in the last
\* place of the market average, and the difference rounds to -avg_market_price
float_sub(contract_usd, avg_market_price) ==
    IF IsScaled(contract_usd)
    THEN [n |-> -avg_market_price.n, d |-> avg_market_price.d]
    ELSE RSub(contract_usd, avg_market_price)

RECURSIVE SumPrices(_, _)
\* sum(p['price_usd'] for p in market_prices), from the i-th on
SumPrices(market_prices, i) ==
    IF i > Len(market_prices) THEN Num(0)
    ELSE RAdd(market_prices[i].price_usd, SumPrices(market_prices, i + 1))

\* the classification with the boundaries counted in the higher class
calculate_severity_inclusive(discrepancy_pct) ==
    IF RLe(Rat(50, 100), discrepancy_pct) THEN "critical"
    ELSE IF RLe(Rat(25, 100), discrepancy_pct) THEN "high"
    ELSE IF RLe(Rat(10, 100), discrepancy_pct) THEN "medium"
    ELSE "low"

calculate_severity(discrepancy_pct) ==
    IF RLt(Rat(50, 100), discrepancy_pct) THEN "critical"
    ELSE IF RLt(Rat(25, 100), discrepancy_pct) THEN "high"
    ELSE IF RLt(Rat(10, 100), discrepancy_pct) THEN "medium"
    ELSE "low"

\* the body of the loop over the contract prices: the discrepancies, none or
\* one, that one contract price adds
CompareOne(contract_price, avg_market_price) ==
    LET contract_usd == contract_usd_of(contract_price.value)
    IN  IF RLt(Num(0), avg_market_price)
        THEN LET diff == RAbs(float_sub(contract_usd, avg_market_price))
                 discrepancy_pct == RDiv(diff, avg_market_price)
             IN  IF RLt(threshold, discrepancy_pct)
                 THEN <<[contract_price       |-> contract_usd,
                         market_price         |-> avg_market_price,
                         discrepancy_percent  |-> RMul(discrepancy_pct, Num(100)),
                         profit_potential_usd |-> diff,
                         is_exploitable       |-> RLt(Rat(5, 100), discrepancy_pct),
                         severity             |-> calculate_severity(discrepancy_pct),
                         type                 |-> contract_price.type,
                         line                 |-> get(contract_price, "line", 0)]>>
                 ELSE <<>>
        ELSE <<>>

RECURSIVE CompareAll(_, _, _)
\* the loop over the contract prices, from the i-th on
CompareAll(contract_prices, i, avg_market_price) ==
    IF i > Len(contract_prices) THEN <<>>
    ELSE CompareOne(contract_prices[i], avg_market_price)
            \o CompareAll(contract_prices, i + 1, avg_market_price)

\* without market prices the contract prices are compared with one dollar
compare_prices_default_market(contract_prices, market_prices) ==
    IF Len(market_prices) = 0 THEN CompareAll(contract_prices, 1, Num(1))
    ELSE CompareAll(contract_prices, 1,
                    RDiv(SumPrices(market_prices, 1), Num(Len(market_prices))))

compare_prices(contract_prices, market_prices) ==
    IF Len(market_prices) = 0 THEN <<>>
    ELSE CompareAll(contract_prices, 1,
                    RDiv(SumPrices(market_prices, 1), Num(Len(market_prices))))

(***************************************************************************)
(* ArbitrageDetector                                                       *)
(***************************************************************************)
\* min_profit_usd: float = 100.0
min_profit_usd == Num(100)

\* the volume assumed when none is given
DefaultVolume == 1000

\* Python's truth value of an optional number
Truthy(x) == x # None /\ ~IsZero(x)

detect_simple_arbitrage(buy_price, sell_price, volume) ==
    IF RLe(sell_price, buy_price) THEN Return(None)
    ELSE IF IsZero(buy_price) THEN Raise("ZeroDivisionError")
    ELSE LET profit_per_token == RSub(sell_price, buy_price)
             profit_percent == RMul(RDiv(profit_per_token, buy_price), Num(100))
             vol == IF Truthy(volume) THEN volume ELSE Num(DefaultVolume)
             total_profit == RMul(profit_per_token, vol)
         IN  IF RLe(min_profit_usd, total_profit)
             THEN Return([type             |-> "simple_arbitrage",
                          buy_price        |-> buy_price,
                          sell_price       |-> sell_price,
                          profit_per_token |-> profit_per_token,
                          profit_percent   |-> profit_percent,
                          estimated_volume |-> vol,
                          total_profit_usd |-> total_profit])
             ELSE Return(None)

\* the start of the simulated round trip, in USD
StartAmount == 1000

\* None stands for "no opportunity"; a zero price is a ZeroDivisionError that
\* the function catches
calculate_triangular_profit(price1, price2, price3) ==
    LET p1 == get(price1, "price_usd", Num(1))
        p2 == get(price2, "price_usd", Num(1))
        p3 == get(price3, "price_usd", Num(1))
    IN  IF IsZero(p1) THEN None
        ELSE LET token1_amount == RDiv(Num(StartAmount), p1)
                 token2_amount == RDiv(RMul(token1_amount, p2), p1)
                 final_usd == RMul(token2_amount, p3)
                 profit == RSub(final_usd, Num(StartAmount))
             IN  IF RLt(Num(0), profit)
                 THEN [type           |-> "triangular_arbitrage",
                       start_amount   |-> Num(StartAmount),
                       final_amount   |-> final_usd,
                       profit_usd     |-> profit,
                       profit_percent |-> RMul(RDiv(profit, Num(StartAmount)), Num(100)),
                       path           |-> <<get(price1, "dex", "unknown"),
                                            get(price2, "dex", "unknown"),
                                            get(price3, "dex", "unknown")>>]
                 ELSE None

\* the index triples of three different elements, in any order of the three
Triples_unordered(n) ==
    LET all == [m \in 1..(n * n * n) |->
                   <<((m - 1) \div (n * n)) + 1,
                     (((m - 1) \div n) % n) + 1,
                     ((m - 1) % n) + 1>>]
        Different(t) == t[1] # t[2] /\ t[2] # t[3] /\ t[1] # t[3]
    IN  SelectSeq(all, Different)

\* the index triples i < j < k of a list of n elements, in the order the three
\* nested loops visit them
Triples(n) ==
    LET all == [m \in 1..(n * n * n) |->
                   <<((m - 1) \div (n * n)) + 1,
                     (((m - 1) \div n) % n) + 1,
                     ((m - 1) % n) + 1>>]
        Increasing(t) == t[1] < t[2] /\ t[2] < t[3]
    IN  SelectSeq(all, Increasing)

RECURSIVE TriangularLoop(_, _, _)
\* the body of the innermost loop for the triples from the m-th on
TriangularLoop(prices, triples, m) ==
    IF m > Len(triples) THEN <<>>
    ELSE LET t == triples[m]
             opportunity == calculate_triangular_profit(
                                prices[t[1]], prices[t[2]], prices[t[3]])
         IN  (IF opportunity # None /\ RLe(min_profit_usd, opportunity.profit_usd)
              THEN <<opportunity>> ELSE <<>>)
             \o TriangularLoop(prices, triples, m + 1)

detect_triangular_arbitrage(prices) ==
    IF Len(prices) < 3 THEN <<>>
    ELSE TriangularLoop(prices, Triples(Len(prices)), 1)

\* flash_loan_amounts, in USD
flash_loan_amounts == <<10000, 100000, 1000000>>

\* a flash loan fee of 20 %
FlashLoanFee_fifth == Rat(20, 100)

\* the flash loan fee of 0.09 %
FlashLoanFee == Rat(9, 10000)

calculate_flash_loan_profit(loan_amount, buy_price, sell_price) ==
    IF RLe(sell_price, buy_price) THEN Return(None)
    ELSE IF IsZero(buy_price) THEN Raise("ZeroDivisionError")
    ELSE LET tokens == RDiv(loan_amount, buy_price)
             revenue == RMul(tokens, sell_price)
             profit == RSub(revenue, loan_amount)
         IN  Return(IF RLt(Num(0), profit) THEN profit ELSE None)

\* the dict with a profit of 10000 counted as critical
FlashLoanOpportunity_inclusive(loan_amount, discrepancy, profit) ==
    [type            |-> "flash_loan_arbitrage",
     loan_amount_usd |-> loan_amount,
     contract_price  |-> discrepancy.contract_price,
     market_price    |-> discrepancy.market_price,
     gross_profit    |-> profit,
     flash_loan_fee  |-> RMul(loan_amount, FlashLoanFee),
     net_profit      |-> RSub(profit, RMul(loan_amount, FlashLoanFee)),
     roi_percent     |-> RMul(RDiv(profit, RMul(loan_amount, FlashLoanFee)), Num(100)),
     severity        |-> IF RLe(Num(10000), profit) THEN "critical" ELSE "high"]

\* the dict appended for a loan amount and its profit
FlashLoanOpportunity(loan_amount, discrepancy, profit) ==
    [type            |-> "flash_loan_arbitrage",
     loan_amount_usd |-> loan_amount,
     contract_price  |-> discrepancy.contract_price,
     market_price    |-> discrepancy.market_price,
     gross_profit    |-> profit,
     flash_loan_fee  |-> RMul(loan_amount, FlashLoanFee),
     net_profit      |-> RSub(profit, RMul(loan_amount, FlashLoanFee)),
     roi_percent     |-> RMul(RDiv(profit, RMul(loan_amount, FlashLoanFee)), Num(100)),
     severity        |-> IF RLt(Num(10000), profit) THEN "critical" ELSE "high"]

RECURSIVE FlashLoanLoop(_, _, _, _)
\* the two nested loops, over the discrepancies from the i-th and the loan
\* amounts from the a-th on; opportunities is the list built so far
FlashLoanLoop(price_discrepancies, i, a, opportunities) ==
    IF i > Len(price_discrepancies) THEN Return(opportunities)
    ELSE IF a > Len(flash_loan_amounts)
              \/ ~RLt(Num(1), get(price_discrepancies[i], "discrepancy_percent", Num(0)))
    THEN FlashLoanLoop(price_discrepancies, i + 1, 1, opportunities)
    ELSE LET discrepancy == price_discrepancies[i]
             loan_amount == Num(flash_loan_amounts[a])
             profit == calculate_flash_loan_profit(
                           loan_amount, discrepancy.contract_price,
                           discrepancy.market_price)
         IN  IF profit.raised THEN profit
             ELSE FlashLoanLoop(price_discrepancies, i, a + 1,
                     IF Truthy(profit.value) /\ RLe(min_profit_usd, profit.value)
                     THEN Append(opportunities,
                                 FlashLoanOpportunity(loan_amount, discrepancy,
                                                      profit.value))
                     ELSE opportunities)

detect_flash_loan_arbitrage(contract_analysis, dex_prices) ==
    FlashLoanLoop(get(contract_analysis, "price_discrepancies", <<>>), 1, 1, <<>>)

RECURSIVE SimpleLoop(_, _, _)
\* the loop over the discrepancies from the i-th on; opportunities is the
\* list built so far
SimpleLoop(price_discrepancies, i, opportunities) ==
    IF i > Len(price_discrepancies) THEN Return(opportunities)
    ELSE LET simple == detect_simple_arbitrage(
                           price_discrepancies[i].contract_price,
                           price_discrepancies[i].market_price, None)
         IN  IF simple.raised THEN simple
             ELSE SimpleLoop(price_discrepancies, i + 1,
                     IF simple.value # None
                     THEN Append(opportunities, simple.value)
                     ELSE opportunities)

\* opp.get('total_profit_usd', 0) or opp.get('net_profit', 0)
ProfitKey(opp) ==
    LET total == get(opp, "total_profit_usd", Num(0))
    IN  IF ~IsZero(total) THEN total ELSE get(opp, "net_profit", Num(0))

RECURSIVE SumProfit(_, _)
SumProfit(opportunities, i) ==
    IF i > Len(opportunities) THEN Num(0)
    ELSE RAdd(ProfitKey(opportunities[i]), SumProfit(opportunities, i + 1))

\* max(opportunities, key=...): the first element with the largest key
MaxByProfit(opportunities) ==
    LET i == CHOOSE j \in 1..Len(opportunities) :
                 /\ \A k \in 1..Len(opportunities) :
                       RLe(ProfitKey(opportunities[k]), ProfitKey(opportunities[j]))
                 /\ \A k \in 1..(j - 1) :
                       RLt(ProfitKey(opportunities[k]), ProfitKey(opportunities[j]))
    IN  opportunities[i]

analyze_contract_for_arbitrage(contract_analysis, dex_prices) ==
    LET simple == SimpleLoop(get(contract_analysis, "price_discrepancies", <<>>),
                             1, <<>>)
        flash_loan_opps == detect_flash_loan_arbitrage(contract_analysis, dex_prices)
        triangular == IF Len(dex_prices) >= 3
                      THEN detect_triangular_arbitrage(dex_prices) ELSE <<>>
    IN  IF simple.raised THEN simple
        ELSE IF flash_loan_opps.raised THEN flash_loan_opps
        ELSE LET opportunities == simple.value \o flash_loan_opps.value \o triangular
                 total_profit == SumProfit(opportunities, 1)
             IN  Return(
                   [arbitrage_opportunities    |-> opportunities,
                    total_opportunities        |-> Len(opportunities),
                    total_profit_potential     |-> total_profit,
                    highest_profit_opportunity |->
                        IF Len(opportunities) > 0 THEN MaxByProfit(opportunities)
                        ELSE None,
                    is_profitable              |-> RLe(min_profit_usd, total_profit)])

(***************************************************************************)
(* The economic analysis: compare_prices over extracted contract prices    *)
(* and market quotes, then analyze_contract_for_arbitrage over the         *)
(* discrepancies found.                                                    *)
(***************************************************************************)
\* the integers base * 10**exp a contract holds as a price
RawValues == {[base |-> b, exp |-> e] : b \in 0..MaxBase, e \in {Decimals - 1, Decimals}}

ContractPrices == {[type |-> "hardcoded_price", value |-> v, line |-> 1] : v \in RawValues}

\* the quotes a DEX gives: no price, one dollar, one and a half
QuotedPrices == {Num(0), Num(1), Rat(3, 2)}

Quotes == {[price_usd |-> p, dex |-> "uniswap_v2"] : p \in QuotedPrices}

EconInit ==
    /\ NoForker
    /\ NoDirectory
    /\ results = <<>>
    /\ pc = "compare_prices"
    /\ \E contract_prices \in ListsUpTo(ContractPrices, MaxContractPrices),
          market_prices \in ListsUpTo(Quotes, MaxQuotes) :
          call = [name |-> "economic_analysis",
                  contract_prices |-> contract_prices,
                  market_prices |-> market_prices]
    /\ exc = "none"
    /\ discrepancies = <<>>
    /\ analysis = None
    /\ ret = None
    /\ op = [ran |-> <<>>]

ComparePrices ==
    /\ pc = "compare_prices"
    /\ discrepancies' = compare_prices(call.contract_prices, call.market_prices)
    /\ pc' = "analyze"
    /\ op' = [op EXCEPT !.ran = Append(@, "compare_prices")]
    /\ UNCHANGED <<results, call, exc, analysis, ret, forkVars, dirVars>>

AnalyzeArbitrage ==
    /\ pc = "analyze"
    /\ LET r == analyze_contract_for_arbitrage(
                    [price_discrepancies |-> discrepancies], call.market_prices)
       IN  IF r.raised
           THEN /\ exc' = r.exc
                /\ pc' = "raised"
                /\ UNCHANGED analysis
           ELSE /\ analysis' = r.value
                /\ pc' = "returned"
                /\ UNCHANGED exc
    /\ op' = [op EXCEPT !.ran = Append(@, "analyze_contract_for_arbitrage")]
    /\ UNCHANGED <<results, call, discrepancies, ret, forkVars, dirVars>>

EconNext == ComparePrices \/ AnalyzeArbitrage

SpecEcon == EconInit /\ [][EconNext]_vars

\* C10: no data-quality condition makes the core raise: for every extracted
\* contract price, a raw value of 0 included, and every non-empty list of
\* market quotes, compare_prices followed by analyze_contract_for_arbitrage
\* returns an analysis and raises nothing.
C10_EconomicAnalysisNeverRaises ==
    Len(call.market_prices) > 0 => (pc # "raised" /\ exc = "none")

(***************************************************************************)
(* The functions of the economic analysis called on their own:             *)
(* compare_prices, detect_simple_arbitrage and detect_triangular_arbitrage *)
(* with the arguments of one call each.                                    *)
(***************************************************************************)
\* the price patterns' integers: 0.5 to 1.5 dollars in wei, in steps of 0.1
SteppedValues ==
    {[base |-> b, exp |-> Decimals - 1] : b \in (10 - MaxStep)..(10 + MaxStep)}

SteppedPrices == {[type |-> "hardcoded_price", value |-> v, line |-> 1] : v \in SteppedValues}

\* the pool ratio record extract_prices_from_contract appends for the reserves
\* found last
pool_ratio(reserves) ==
    [type     |-> "pool_ratio",
     value    |-> IF reserves.A > 0 THEN Rat(reserves.B, reserves.A) ELSE Num(0),
     reserves |-> reserves]

PoolRatios == {pool_ratio([A |-> a, B |-> b]) : a \in {0, 1}, b \in {1, 2}}

ComparedPrices == SteppedPrices \cup PoolRatios

MarketQuotes == {[price_usd |-> p, dex |-> "uniswap_v2"] : p \in QuotedPrices \cup {Num(2)}}

\* the volumes a caller passes, None for the default
Volumes == {None, Num(0), Num(100), Num(200), Num(1000)}

CallsOfComparePrices ==
    {[name |-> "compare_prices", contract_prices |-> c, market_prices |-> m] :
        c \in ListsUpTo(ComparedPrices, MaxCompared),
        m \in ListsUpTo(MarketQuotes, MaxMarket)}

CallsOfDetectSimple ==
    {[name |-> "detect_simple_arbitrage", buy_price |-> b, sell_price |-> s,
      volume |-> v] :
        b \in QuotedPrices \cup {Num(2)}, s \in QuotedPrices \cup {Num(2)},
        v \in Volumes}

\* quotes of two exchanges
TriangularQuotes ==
    {[price_usd |-> p, dex |-> d] :
        p \in QuotedPrices, d \in {"uniswap_v2", "sushiswap"}}

CallsOfDetectTriangular ==
    {[name |-> "detect_triangular_arbitrage", prices |-> q] :
        q \in ListsUpTo(TriangularQuotes, MaxQuotes)}

\* the discrepancy a comparator of any threshold reports for a contract price
\* and a market price that differ
Discrepancy(contract_usd, avg_market_price) ==
    [contract_price      |-> contract_usd,
     market_price        |-> avg_market_price,
     discrepancy_percent |->
         RMul(RDiv(RAbs(RSub(contract_usd, avg_market_price)), avg_market_price),
              Num(100))]

FlashDiscrepancies ==
    {Discrepancy(c, m) :
        c \in {Num(0), Rat(1, 2), Num(1), Num(2)},
        m \in {Num(1), Rat(101, 100), Rat(11, 10), Num(2)}} \ {Discrepancy(Num(1), Num(1)), Discrepancy(Num(2), Num(2))}

CallsOfDetectFlashLoan ==
    {[name |-> "detect_flash_loan_arbitrage",
      contract_analysis |-> [price_discrepancies |-> d],
      dex_prices |-> <<>>] :
        d \in ListsUpTo(FlashDiscrepancies, MaxDiscrepancies)}

DetectInit ==
    /\ NoForker
    /\ NoDirectory
    /\ results = <<>>
    /\ pc = "called"
    /\ call \in CallsOfComparePrices \cup CallsOfDetectSimple
                    \cup CallsOfDetectTriangular \cup CallsOfDetectFlashLoan
    /\ exc = "none"
    /\ discrepancies = <<>>
    /\ analysis = None
    /\ ret = None
    /\ op = [ran |-> <<>>]

\* the call returns r.value or raises r.exc
Finish(r) ==
    /\ IF r.raised
       THEN /\ exc' = r.exc
            /\ pc' = "raised"
            /\ UNCHANGED ret
       ELSE /\ ret' = r.value
            /\ pc' = "returned"
            /\ UNCHANGED exc
    /\ op' = [op EXCEPT !.ran = Append(@, call.name)]
    /\ UNCHANGED <<results, call, discrepancies, analysis, forkVars, dirVars>>

CallComparePrices ==
    /\ pc = "called"
    /\ call.name = "compare_prices"
    /\ Finish(Return(compare_prices(call.contract_prices, call.market_prices)))

CallDetectSimple ==
    /\ pc = "called"
    /\ call.name = "detect_simple_arbitrage"
    /\ Finish(detect_simple_arbitrage(call.buy_price, call.sell_price, call.volume))

CallDetectTriangular ==
    /\ pc = "called"
    /\ call.name = "detect_triangular_arbitrage"
    /\ Finish(Return(detect_triangular_arbitrage(call.prices)))

CallDetectFlashLoan ==
    /\ pc = "called"
    /\ call.name = "detect_flash_loan_arbitrage"
    /\ Finish(detect_flash_loan_arbitrage(call.contract_analysis, call.dex_prices))

DetectNext ==
    \/ CallComparePrices
    \/ CallDetectSimple
    \/ CallDetectTriangular
    \/ CallDetectFlashLoan

SpecDetect == DetectInit /\ [][DetectNext]_vars

\* compare_prices has returned
ComparePricesReturned == call.name = "compare_prices" /\ pc = "returned"

\* the average of the market prices of the call, when there is one
AvgMarket ==
    RDiv(SumPrices(call.market_prices, 1), Num(Len(call.market_prices)))

\* a record that holds the raw integer of a price pattern
IsRaw(contract_price) == contract_price.type # "pool_ratio"

\* valueUSD of a raw integer: base * 10**exp / 10**18
ValueUSD(contract_price) ==
    Rat(contract_price.value.base * Pow10(contract_price.value.exp - (Decimals - 1)),
        10)

\* pct = |valueUSD - avgMarket| / avgMarket
Pct(contract_price) ==
    RDiv(RAbs(RSub(ValueUSD(contract_price), AvgMarket)), AvgMarket)

\* the four classes by their boundaries
SeverityOfPct(pct) ==
    CASE RLt(Rat(1, 2), pct) -> "critical"
      [] RLt(Rat(1, 4), pct) /\ RLe(pct, Rat(1, 2)) -> "high"
      [] RLt(Rat(1, 10), pct) /\ RLe(pct, Rat(1, 4)) -> "medium"
      [] OTHER -> "low"

DirectUSD(contract_price) ==
    IF IsRaw(contract_price) THEN ValueUSD(contract_price) ELSE contract_price.value

PctDirect(contract_price) ==
    RDiv(RAbs(RSub(DirectUSD(contract_price), AvgMarket)), AvgMarket)

\* C12: compare_prices divides by 10**18 only the raw integer values; a pool
\* ratio record is compared with the market average by its value reserveB /
\* reserveA as it is: it is reported exactly when that value lies more than
\* the threshold off the average, and the reported contract price is that
\* value.
C12_PoolRatioComparedUnscaled ==
    (/\ ComparePricesReturned
     /\ Len(call.market_prices) > 0
     /\ RLt(Num(0), AvgMarket))
    => LET Exceeds(p) == RLt(Rat(1, 10), PctDirect(p))
           emitting == SelectSeq(call.contract_prices, Exceeds)
       IN  /\ Len(ret) = Len(emitting)
           /\ \A i \in 1..Len(ret) :
                 /\ ret[i].type = emitting[i].type
                 /\ ret[i].contract_price = DirectUSD(emitting[i])

\* C13: insufficient data gives an empty result and no error: compare_prices
\* returns [] when the list of contract prices or the list of market prices
\* is empty, and detect_triangular_arbitrage returns [] for fewer than 3
\* quotes.
C13_InsufficientDataGivesEmptyResult ==
    /\ (/\ call.name = "compare_prices"
        /\ Len(call.contract_prices) = 0 \/ Len(call.market_prices) = 0
        /\ pc # "called")
       => (pc = "returned" /\ exc = "none" /\ ret = <<>>)
    /\ (/\ call.name = "detect_triangular_arbitrage"
        /\ Len(call.prices) < 3
        /\ pc # "called")
       => (pc = "returned" /\ exc = "none" /\ ret = <<>>)

\* compare_prices has returned for two contract prices far off one dollar and
\* no market price
C13_Witness ==
    /\ ComparePricesReturned
    /\ Len(call.market_prices) = 0
    /\ Len(call.contract_prices) = 2
    /\ \A i \in 1..2 : /\ IsRaw(call.contract_prices[i])
                        /\ ValueUSD(call.contract_prices[i]) = Rat(1, 2)
    /\ ret = <<>>

\* detect_simple_arbitrage has returned or raised
DetectSimpleDone == call.name = "detect_simple_arbitrage" /\ pc # "called"

\* the volume of the call: the one passed, or the default when none is passed
VolumeOfCall == IF call.volume = None THEN Num(1000) ELSE call.volume

\* (sell_price - buy_price) * volume
ProfitOfCall == RMul(RSub(call.sell_price, call.buy_price), VolumeOfCall)

\* C14: detect_simple_arbitrage returns no opportunity when sell_price <=
\* buy_price; otherwise it returns an opportunity exactly when (sell_price -
\* buy_price) * volume >= min_profit_usd = 100, and the total profit of the
\* opportunity is (sell_price - buy_price) * volume.
C14_SimpleArbitrageProfit ==
    DetectSimpleDone =>
        /\ pc = "returned"
        /\ IF RLe(call.sell_price, call.buy_price) THEN ret = None
           ELSE /\ (ret # None) <=> RLe(Num(100), ProfitOfCall)
                /\ ret # None => ret.total_profit_usd = ProfitOfCall

\* C15: the default volume of 1000 is used only when the caller passes no
\* volume; for every volume passed, 0 included, a returned opportunity
\* reports that volume and the total profit (sell_price - buy_price) times
\* it, and no opportunity is returned when that product is below
\* min_profit_usd.
C15_SuppliedVolumeIsUsed ==
    (DetectSimpleDone /\ pc = "returned") =>
        IF call.volume = None
        THEN ret # None => ret.estimated_volume = Num(1000)
        ELSE /\ ret # None =>
                  /\ ret.estimated_volume = call.volume
                  /\ ret.total_profit_usd =
                        RMul(RSub(call.sell_price, call.buy_price), call.volume)
             /\ IsZero(call.volume) => ret = None

(***************************************************************************)
(* Properties of the analysis analyze_contract_for_arbitrage returns       *)
(***************************************************************************)
\* the profit field of an opportunity, by its type
ProfitField(opp) ==
    CASE opp.type = "simple_arbitrage" -> opp.total_profit_usd
      [] opp.type = "triangular_arbitrage" -> opp.profit_usd
      [] opp.type = "flash_loan_arbitrage" -> opp.net_profit

RECURSIVE SumOfProfitFields(_, _)
SumOfProfitFields(opportunities, i) ==
    IF i > Len(opportunities) THEN Num(0)
    ELSE RAdd(ProfitField(opportunities[i]),
              SumOfProfitFields(opportunities, i + 1))

\* C16: total_profit_potential is the sum, over all returned opportunities,
\* of the profit field of each: total_profit_usd of a simple, profit_usd of a
\* triangular and net_profit of a flash-loan opportunity.
C16_TotalIsSumOfProfitFields ==
    pc = "returned" =>
        analysis.total_profit_potential
            = SumOfProfitFields(analysis.arbitrage_opportunities, 1)

\* C17: highest_profit_opportunity is None when no opportunity was found;
\* otherwise it is the first opportunity, in the order simple, flash-loan,
\* triangular of the returned list, whose profit field is the largest.
C17_HighestIsFirstMaximum ==
    pc = "returned" =>
        LET opportunities == analysis.arbitrage_opportunities
            highest == analysis.highest_profit_opportunity
        IN  IF Len(opportunities) = 0 THEN highest = None
            ELSE \E j \in 1..Len(opportunities) :
                   /\ highest = opportunities[j]
                   /\ \A k \in 1..Len(opportunities) :
                         RLe(ProfitField(opportunities[k]), ProfitField(highest))
                   /\ \A k \in 1..(j - 1) :
                         RLt(ProfitField(opportunities[k]), ProfitField(highest))

(***************************************************************************)
(* ProfitCalculator (src/sandbox/profit_calculator.py).  An amount in wei  *)
(* is a Python integer, held as base * 10**exp because 10**18 does not fit *)
(* a machine word; a float is a fraction, or Scaled(r, e) for r * 10**e    *)
(* when the amount is a few wei.                                           *)
(***************************************************************************)
Wei(base, exp) == [base |-> base, exp |-> exp]

\* the integer a in units of 10**m, m <= a.exp
Aligned(a, m) == a.base * Pow10(a.exp - m)

\* a - b
IntSub(a, b) ==
    LET m == min(a.exp, b.exp)
    IN  Wei(Aligned(a, m) - Aligned(b, m), m)

\* a / b, the true division of two integers, b # 0
IntDiv(a, b) ==
    LET m == min(a.exp, b.exp)
    IN  Rat(Aligned(a, m), Aligned(b, m))

RECURSIVE ExactShift(_, _, _, _)
\* the least j in from..limit for which x * 10**j is a multiple of d, or -1
ExactShift(x, d, from, limit) ==
    IF (x * Pow10(from)) % d = 0 THEN from
    ELSE IF from >= limit THEN -1
    ELSE ExactShift(x, d, from + 1, limit)

\* int(a * r) for an integer a >= 0 and a float r >= 0: the product, cut
\* down to an integer when it is not one
int_of_product(a, r) ==
    LET x == a.base * r.n
        j == ExactShift(x, r.d, 0, a.exp)
    IN  IF j >= 0 THEN Wei((x * Pow10(j)) \div r.d, a.exp - j)
        ELSE Wei((x * Pow10(a.exp)) \div r.d, 0)

\* float(Web3.from_wei(number, 'ether')): from_wei gives 0 for 0, raises
\* ValueError for a number outside 0 .. 2**256 - 1, and divides by 10**18
\* otherwise
from_wei(number) ==
    IF number.base = 0 THEN Return(Num(0))
    ELSE IF number.base < 0 THEN Raise("ValueError")
    ELSE IF number.exp >= Decimals
    THEN Return(Num(number.base * Pow10(number.exp - Decimals)))
    ELSE IF Decimals - number.exp <= 9
    THEN Return(Rat(number.base, Pow10(Decimals - number.exp)))
    ELSE Return(Scaled(Rat(number.base, Pow10(9 - number.exp)), -9))

\* x * price for a float x and a price
FMul(x, price) ==
    IF IsScaled(x) THEN Scaled(RMul([n |-> x.n, d |-> x.d], price), x.e)
    ELSE RMul(x, price)

\* bound <= x for a float x and a bound that is 0 or at least 1 in size: a
\* scaled x lies strictly between -1 and 1 and is not 0
FGe(x, bound) ==
    IF IsScaled(x) THEN (IF x.n > 0 THEN bound.n <= 0 ELSE bound.n < 0)
    ELSE RLe(bound, x)

\* bound < x, as above
FGt(x, bound) ==
    IF IsScaled(x) THEN (IF x.n > 0 THEN bound.n <= 0 ELSE bound.n < 0)
    ELSE RLt(bound, x)

Chains == {"ethereum", "bsc", "polygon", "arbitrum", "optimism"}

DEFAULT_PRICES ==
    [chain \in Chains |->
        CASE chain = "ethereum" -> Num(2000)
          [] chain = "bsc" -> Num(300)
          [] chain = "polygon" -> Rat(80, 100)
          [] chain = "arbitrum" -> Num(2000)
          [] chain = "optimism" -> Num(2000)]

\* self.native_price_usd as __init__ sets it
native_price_usd_of(chain, native_price_usd) ==
    IF Truthy(native_price_usd) THEN native_price_usd
    ELSE IF chain \in Chains THEN DEFAULT_PRICES[chain] ELSE Num(300)

get_native_token_symbol(chain) ==
    CASE chain = "ethereum" -> "ETH"
      [] chain = "bsc" -> "BNB"
      [] chain = "polygon" -> "MATIC"
      [] chain = "arbitrum" -> "ETH"
      [] chain = "optimism" -> "ETH"
      [] OTHER -> "NATIVE"

\* self is the calculator: its chain and its native_price_usd
calculate_profit(self, initial_balance_wei, final_balance_wei) ==
    LET profit_wei == IntSub(final_balance_wei, initial_balance_wei)
        profit_native == from_wei(profit_wei)
    IN  IF profit_native.raised THEN profit_native
        ELSE Return(
               [profit_wei          |-> profit_wei,
                profit_native       |-> profit_native.value,
                profit_usd          |-> FMul(profit_native.value, self.native_price_usd),
                initial_balance_wei |-> initial_balance_wei,
                final_balance_wei   |-> final_balance_wei,
                roi_percent         |->
                    IF initial_balance_wei.base > 0
                    THEN RMul(IntDiv(profit_wei, initial_balance_wei), Num(100))
                    ELSE Num(0),
                is_profitable       |-> profit_wei.base > 0,
                native_token        |-> get_native_token_symbol(self.chain),
                native_price_usd    |-> self.native_price_usd])

ProfitCalculator_calculate_flash_loan_profit(self, loan_amount_wei, revenue_wei, fee_percent) ==
    LET fee_wei == int_of_product(loan_amount_wei, RDiv(fee_percent, Num(100)))
        gross_profit_wei == IntSub(revenue_wei, loan_amount_wei)
        net_profit_wei == IntSub(gross_profit_wei, fee_wei)
        gross_profit_native == from_wei(gross_profit_wei)
        net_profit_native == from_wei(net_profit_wei)
        fee_native == from_wei(fee_wei)
    IN  IF gross_profit_native.raised THEN gross_profit_native
        ELSE IF net_profit_native.raised THEN net_profit_native
        ELSE IF fee_native.raised THEN fee_native
        ELSE Return(
               [loan_amount_wei  |-> loan_amount_wei,
                revenue_wei      |-> revenue_wei,
                gross_profit_wei |-> gross_profit_wei,
                net_profit_wei   |-> net_profit_wei,
                fee_wei          |-> fee_wei,
                gross_profit_usd |-> FMul(gross_profit_native.value, self.native_price_usd),
                net_profit_usd   |-> FMul(net_profit_native.value, self.native_price_usd),
                fee_usd          |-> FMul(fee_native.value, self.native_price_usd),
                roi_percent      |->
                    IF fee_wei.base > 0
                    THEN RMul(IntDiv(net_profit_wei, fee_wei), Num(100))
                    ELSE Num(0),
                is_profitable    |-> net_profit_wei.base > 0,
                native_token     |-> get_native_token_symbol(self.chain)])

\* the classification with every boundary counted in the lower class
profit_severity_strict(profit_usd) ==
    IF FGt(profit_usd, Num(10000)) THEN "critical"
    ELSE IF FGt(profit_usd, Num(1000)) THEN "high"
    ELSE IF FGt(profit_usd, Num(100)) THEN "medium"
    ELSE IF FGt(profit_usd, Num(0)) THEN "low"
    ELSE "none"

\* severity by profit_data['profit_usd']
profit_severity(profit_usd) ==
    IF FGe(profit_usd, Num(10000)) THEN "critical"
    ELSE IF FGe(profit_usd, Num(1000)) THEN "high"
    ELSE IF FGe(profit_usd, Num(100)) THEN "medium"
    ELSE IF FGt(profit_usd, Num(0)) THEN "low"
    ELSE "none"

\* min_usd is the parameter min_profit_usd; reading a key profit_data does
\* not have is a KeyError; the summary text is left out
validate_exploit_profitability(profit_data, min_usd) ==
    IF "is_profitable" \notin DOMAIN profit_data THEN Raise("KeyError")
    ELSE IF "profit_usd" \notin DOMAIN profit_data THEN Raise("KeyError")
    ELSE Return(
           [is_valid_exploit |-> profit_data.is_profitable
                                    /\ FGe(profit_data.profit_usd, min_usd),
            meets_threshold  |-> FGe(profit_data.profit_usd, min_usd),
            severity         |-> profit_severity(profit_data.profit_usd),
            profit_usd       |-> profit_data.profit_usd])

(***************************************************************************)
(* A ProfitCalculator at work: one calculation, then the validation of its *)
(* result.                                                                 *)
(***************************************************************************)
\* the calculators: ProfitCalculator(), ProfitCalculator('ethereum') and
\* ProfitCalculator('testnet', 1.0)
Calculators ==
    {[chain |-> c[1], native_price_usd |-> native_price_usd_of(c[1], c[2])] :
        c \in {<<"bsc", None>>, <<"ethereum", None>>, <<"testnet", Num(1)>>}}

\* amounts of a few wei, of thousands of wei, and of hundredths, tenths and
\* whole native tokens
WeiExps == {0, 3, Decimals - 2, Decimals - 1, Decimals}

\* the fee of 0.09 % and no fee
FeePercents == {Rat(9, 100), Num(0)}

CallsOfCalculateProfit ==
    {[name |-> "calculate_profit", self |-> self,
      initial_balance_wei |-> Wei(i, e), final_balance_wei |-> Wei(f, e)] :
        self \in Calculators, i \in 0..MaxWei, f \in 0..MaxWei, e \in WeiExps}

CallsOfFlashLoanProfit ==
    {[name |-> "calculate_flash_loan_profit", self |-> self,
      loan_amount_wei |-> Wei(l, e), revenue_wei |-> Wei(r, e),
      fee_percent |-> fee] :
        self \in Calculators, l \in 0..MaxWei, r \in 0..MaxWei, e \in WeiExps,
        fee \in FeePercents}

\* the thresholds passed as min_profit_usd: the default and a tenfold one
MinProfits == {Num(100), Num(1000)}

ProfitInit ==
    /\ NoForker
    /\ NoDirectory
    /\ results = <<>>
    /\ pc = "called"
    /\ call \in CallsOfCalculateProfit \cup CallsOfFlashLoanProfit
    /\ exc = "none"
    /\ discrepancies = <<>>
    /\ analysis = None
    /\ ret = None
    /\ op = [ran |-> <<>>]

CalculateProfit ==
    /\ pc = "called"
    /\ call.name = "calculate_profit"
    /\ Finish(calculate_profit(call.self, call.initial_balance_wei,
                               call.final_balance_wei))

CalculateFlashLoanProfit ==
    /\ pc = "called"
    /\ call.name = "calculate_flash_loan_profit"
    /\ Finish(ProfitCalculator_calculate_flash_loan_profit(
                  call.self, call.loan_amount_wei, call.revenue_wei,
                  call.fee_percent))

\* the caller passes the result it got to validate_exploit_profitability
ValidateExploitProfitability(min_usd) ==
    /\ pc = "returned"
    /\ call.name \in {"calculate_profit", "calculate_flash_loan_profit"}
    /\ call' = [name |-> "validate_exploit_profitability", self |-> call.self,
                profit_data |-> ret, min_profit_usd |-> min_usd]
    /\ LET r == validate_exploit_profitability(ret, min_usd)
       IN  IF r.raised
           THEN /\ exc' = r.exc
                /\ pc' = "raised"
                /\ UNCHANGED ret
           ELSE /\ ret' = r.value
                /\ pc' = "returned"
                /\ UNCHANGED exc
    /\ op' = [op EXCEPT !.ran = Append(@, "validate_exploit_profitability")]
    /\ UNCHANGED <<results, discrepancies, analysis, forkVars, dirVars>>

ProfitNext ==
    \/ CalculateProfit
    \/ CalculateFlashLoanProfit
    \/ \E min_usd \in MinProfits : ValidateExploitProfitability(min_usd)

SpecProfit == ProfitInit /\ [][ProfitNext]_vars

\* a = b for two amounts in wei
WeiEq(a, b) == IntSub(a, b).base = 0

\* C18: for all non-negative balances, a loss included, calculate_profit
\* does not raise and returns profit_wei = final - initial, is_profitable
\* true exactly when profit_wei > 0, and roi_percent = profit_wei / initial *
\* 100, or 0 when initial is 0.
C18_CalculateProfitNeverRaises ==
    (call.name = "calculate_profit" /\ pc # "called") =>
        /\ pc = "returned"
        /\ WeiEq(ret.profit_wei,
                 IntSub(call.final_balance_wei, call.initial_balance_wei))
        /\ ret.is_profitable
              <=> (call.final_balance_wei.base > call.initial_balance_wei.base)
        /\ ret.roi_percent =
              IF call.initial_balance_wei.base = 0 THEN Num(0)
              ELSE Rat(100 * (call.final_balance_wei.base
                                - call.initial_balance_wei.base),
                       call.initial_balance_wei.base)

\* C19: calculate_flash_loan_profit returns fee_wei = loan_amount_wei *
\* fee_percent / 100, gross_profit_wei = revenue_wei - loan_amount_wei,
\* net_profit_wei = gross_profit_wei - fee_wei, and roi_percent =
\* net_profit_wei / fee_wei * 100, the return on the fee paid, or 0 when the
\* fee is 0.
C19_FlashLoanProfitFormulas ==
    (call.name = "calculate_flash_loan_profit" /\ pc # "called") =>
        /\ pc = "returned"
        /\ IF call.loan_amount_wei.base = 0 THEN ret.fee_wei.base = 0
           ELSE IntDiv(ret.fee_wei, call.loan_amount_wei)
                    = RDiv(call.fee_percent, Num(100))
        /\ WeiEq(ret.gross_profit_wei,
                 IntSub(call.revenue_wei, call.loan_amount_wei))
        /\ WeiEq(ret.net_profit_wei, IntSub(ret.gross_profit_wei, ret.fee_wei))
        /\ ret.roi_percent =
              IF ret.fee_wei.base = 0 THEN Num(0)
              ELSE RMul(IntDiv(ret.net_profit_wei, ret.fee_wei), Num(100))

\* the profit in USD of a result: profit_usd of calculate_profit, the net
\* profit of calculate_flash_loan_profit
ProfitUSD(profit_data) ==
    IF "profit_usd" \in DOMAIN profit_data THEN profit_data.profit_usd
    ELSE profit_data.net_profit_usd

\* C20: validate_exploit_profitability accepts the result of calculate_profit
\* and the result of calculate_flash_loan_profit: it raises for neither, and
\* is_valid_exploit is true exactly when the result is profitable and its
\* profit in USD is at least min_profit_usd.
C20_ValidationAcceptsEveryResult ==
    call.name = "validate_exploit_profitability" =>
        /\ pc = "returned"
        /\ ret.is_valid_exploit
              <=> (/\ call.profit_data.is_profitable
                   /\ FGe(ProfitUSD(call.profit_data), call.min_profit_usd))

\* validate_exploit_profitability has returned for a result of calculate_profit
ValidationReturned ==
    call.name = "validate_exploit_profitability" /\ pc = "returned"

\* the class of a profit in USD by its boundaries
ClassOfProfit(profit_usd) ==
    CASE FGe(profit_usd, Num(10000)) -> "critical"
      [] FGe(profit_usd, Num(1000)) /\ ~FGe(profit_usd, Num(10000)) -> "high"
      [] FGe(profit_usd, Num(100)) /\ ~FGe(profit_usd, Num(1000)) -> "medium"
      [] FGt(profit_usd, Num(0)) /\ ~FGe(profit_usd, Num(100)) -> "low"
      [] OTHER -> "none"

SeverityRank(severity) ==
    CASE severity = "none" -> 0
      [] severity = "low" -> 1
      [] severity = "medium" -> 2
      [] severity = "high" -> 3
      [] severity = "critical" -> 4

\* profits in USD from a loss of 20000 to a gain of 20000, in steps of 50,
\* and next to them the values one cent below
ProfitSamples ==
    {Num(50 * k) : k \in (0 - 400)..400} \cup {Rat(5000 * k - 1, 100) : k \in 0..400}

\* C21: the severity of a validated result is critical for profit_usd >=
\* 10000, high for 1000 <= profit_usd < 10000, medium for 100 <= profit_usd <
\* 1000, low for 0 < profit_usd < 100 and none for profit_usd <= 0; a larger
\* profit never has a lower severity, 9999.99 is high and 10000 is critical.
C21_ProfitSeverityClasses ==
    /\ ValidationReturned =>
          ret.severity = ClassOfProfit(call.profit_data.profit_usd)
    /\ ValidationReturned =>
          \A p \in ProfitSamples :
             /\ FGe(call.profit_data.profit_usd, p)
                   => SeverityRank(profit_severity(p)) <= SeverityRank(ret.severity)
             /\ ~FGt(call.profit_data.profit_usd, p)
                   => SeverityRank(ret.severity) <= SeverityRank(profit_severity(p))
             /\ profit_severity(p) = ClassOfProfit(p)

\* a gain of 5 ETH at 2000 USD is validated: exactly 10000 USD, critical
C21_Witness ==
    /\ ValidationReturned
    /\ call.profit_data.profit_usd = Num(10000)
    /\ ret.severity = "critical"
    /\ profit_severity(Rat(999999, 100)) = "high"

(***************************************************************************)
(* PriceComparator.extract_prices_from_contract.  The source text is a     *)
(* list of lines with one assignment each: name = base * 10**exp (form     *)
(* "mul"), name = <base>e<exp> (form "e") or name = base (form "int").     *)
(* The context string of a record is left out.                             *)
(***************************************************************************)
\* the names a pattern's name is the end of: price\s*= is found in
\* "tokenPrice =" as well, re.IGNORECASE given
EndsWith(name, suffix) ==
    CASE suffix = "price" ->
            name \in {"price", "tokenPrice", "salePrice", "buyPrice", "sellPrice"}
      [] suffix = "rate" -> name \in {"rate", "exchangeRate"}
      [] OTHER -> name = suffix

\* the regular expressions, by the name they look for and the form of the
\* number they need: two groups for "mul" and "e", one group otherwise
price_patterns ==
    <<[name |-> "price", form |-> "mul"], [name |-> "price", form |-> "e"],
      [name |-> "rate", form |-> "any"], [name |-> "exchangeRate", form |-> "any"]>>

sale_patterns ==
    <<[name |-> "tokenPrice", form |-> "any"], [name |-> "salePrice", form |-> "any"],
      [name |-> "buyPrice", form |-> "any"], [name |-> "sellPrice", form |-> "any"]>>

ratio_patterns ==
    <<[name |-> "reserveA", form |-> "any"], [name |-> "reserveB", form |-> "any"]>>

\* re.finditer finds the pattern in the line
Matches(pattern, statement) ==
    /\ EndsWith(statement.name, pattern.name)
    /\ pattern.form = "any" \/ pattern.form = statement.form

\* the value of a match: base * 10**exp with two groups, int(group(1)) with one
ValueOfMatch(pattern, statement) ==
    IF pattern.form = "any" THEN [base |-> statement.base, exp |-> 0]
    ELSE [base |-> statement.base, exp |-> statement.exp]

RECURSIVE MatchLoop(_, _, _, _)
\* the records one pattern appends, for its matches from line i on
MatchLoop(pattern, type, contract_code, i) ==
    IF i > Len(contract_code) THEN <<>>
    ELSE (IF Matches(pattern, contract_code[i])
          THEN <<[type  |-> type,
                  value |-> ValueOfMatch(pattern, contract_code[i]),
                  line  |-> i]>>
          ELSE <<>>)
         \o MatchLoop(pattern, type, contract_code, i + 1)

RECURSIVE PatternLoop(_, _, _, _)
\* the loop over the patterns of one family, from the k-th on
PatternLoop(patterns, type, contract_code, k) ==
    IF k > Len(patterns) THEN <<>>
    ELSE MatchLoop(patterns[k], type, contract_code, 1)
            \o PatternLoop(patterns, type, contract_code, k + 1)

RECURSIVE ReservesLoop(_, _, _, _)
\* the dict reserves after the matches of the ratio patterns from the k-th
\* pattern, line i on: every match overwrites the entry of its token
ReservesLoop(contract_code, k, i, reserves) ==
    IF k > Len(ratio_patterns) THEN reserves
    ELSE IF i > Len(contract_code)
    THEN ReservesLoop(contract_code, k + 1, 1, reserves)
    ELSE IF Matches(ratio_patterns[k], contract_code[i])
    THEN LET token_name == IF contract_code[i].name = "reserveA" THEN "A" ELSE "B"
         IN  ReservesLoop(contract_code, k, i + 1,
                          [t \in DOMAIN reserves \cup {token_name} |->
                              IF t = token_name THEN contract_code[i].base
                              ELSE reserves[t]])
    ELSE ReservesLoop(contract_code, k, i + 1, reserves)

extract_prices_from_contract(contract_code) ==
    LET reserves == ReservesLoop(contract_code, 1, 1, <<>>)
    IN  PatternLoop(price_patterns, "hardcoded_price", contract_code, 1)
        \o PatternLoop(sale_patterns, "sale_price", contract_code, 1)
        \o (IF "A" \in DOMAIN reserves /\ "B" \in DOMAIN reserves
            THEN <<pool_ratio([A |-> reserves["A"], B |-> reserves["B"]])>>
            ELSE <<>>)

\* the lines of the contract sources
Statements ==
    {[name |-> "price", form |-> "mul", base |-> 1, exp |-> Decimals],
     [name |-> "price", form |-> "e", base |-> 2, exp |-> Decimals],
     [name |-> "exchangeRate", form |-> "int", base |-> 1000, exp |-> 0],
     [name |-> "tokenPrice", form |-> "mul", base |-> 1, exp |-> Decimals],
     [name |-> "owner", form |-> "int", base |-> 0, exp |-> 0],
     [name |-> "reserveA", form |-> "int", base |-> 1, exp |-> 0],
     [name |-> "reserveA", form |-> "int", base |-> 2, exp |-> 0],
     [name |-> "reserveB", form |-> "int", base |-> 2, exp |-> 0],
     [name |-> "reserveB", form |-> "int", base |-> 4, exp |-> 0]}

ExtractInit ==
    /\ NoForker
    /\ NoDirectory
    /\ results = <<>>
    /\ pc = "called"
    /\ \E contract_code \in ListsUpTo(Statements, MaxLines) :
          call = [name |-> "extract_prices_from_contract",
                  contract_code |-> contract_code]
    /\ exc = "none"
    /\ discrepancies = <<>>
    /\ analysis = None
    /\ ret = None
    /\ op = [ran |-> <<>>]

ExtractPrices ==
    /\ pc = "called"
    /\ call.name = "extract_prices_from_contract"
    /\ Finish(Return(extract_prices_from_contract(call.contract_code)))

ExtractNext == ExtractPrices

SpecExtract == ExtractInit /\ [][ExtractNext]_vars

\* how many elements of a list satisfy P
CountIn(list, P(_)) == Cardinality({i \in 1..Len(list) : P(list[i])})

\* how many times the patterns of a family occur in the source
Occurrences(patterns) ==
    Cardinality({<<k, i>> \in (1..Len(patterns)) \X (1..Len(call.contract_code)) :
                    Matches(patterns[k], call.contract_code[i])})

\* C22: no family of patterns is deduplicated: n occurrences of its patterns
\* give n records, and the reserve assignments give one pool_ratio record
\* per assigned pair of reserveA and reserveB, not one record for the last
\* values.
C22_NoDeduplication ==
    (call.name = "extract_prices_from_contract" /\ pc = "returned") =>
        LET IsHardcoded(r) == r.type = "hardcoded_price"
            IsSale(r) == r.type = "sale_price"
            IsPool(r) == r.type = "pool_ratio"
            IsA(st) == st.name = "reserveA"
            IsB(st) == st.name = "reserveB"
        IN  /\ CountIn(ret, IsHardcoded) = Occurrences(price_patterns)
            /\ CountIn(ret, IsSale) = Occurrences(sale_patterns)
            /\ CountIn(ret, IsPool)
                  = min(CountIn(call.contract_code, IsA),
                        CountIn(call.contract_code, IsB))

\* detect_flash_loan_arbitrage has returned or raised
DetectFlashLoanDone == call.name = "detect_flash_loan_arbitrage" /\ pc # "called"

\* grossProfit = loan / buyPrice * sellPrice - loan, buyPrice # 0
GrossProfit(loan, discrepancy) ==
    RSub(RMul(RDiv(Num(loan), discrepancy.contract_price), discrepancy.market_price),
         Num(loan))

\* the discrepancy and the loan size qualify for an opportunity
Qualifies(loan, discrepancy) ==
    /\ RLt(Num(1), discrepancy.discrepancy_percent)
    /\ ~IsZero(discrepancy.contract_price)
    /\ RLt(Num(0), GrossProfit(loan, discrepancy))
    /\ RLe(Num(100), GrossProfit(loan, discrepancy))

\* C23: detect_flash_loan_arbitrage returns, for each discrepancy with
\* discrepancy_percent > 1.0 and each loan of 10000, 100000 and 1000000, an
\* opportunity exactly when grossProfit = loan / buyPrice * sellPrice - loan
\* is > 0 and >= min_profit_usd, with fee = loan * 0.0009 and net_profit =
\* grossProfit - fee; a discrepancy with discrepancy_percent <= 1.0 gives
\* none.
C23_FlashLoanOpportunities ==
    DetectFlashLoanDone =>
        LET ds == call.contract_analysis.price_discrepancies
            loans == {10000, 100000, 1000000}
            qualifying == {<<i, loan>> \in (1..Len(ds)) \X loans :
                              Qualifies(loan, ds[i])}
        IN  /\ pc = "returned"
            /\ Len(ret) = Cardinality(qualifying)
            /\ \A q \in qualifying :
                  \E k \in 1..Len(ret) :
                     /\ ret[k].loan_amount_usd = Num(q[2])
                     /\ ret[k].contract_price = ds[q[1]].contract_price
                     /\ ret[k].market_price = ds[q[1]].market_price
                     /\ ret[k].gross_profit = GrossProfit(q[2], ds[q[1]])
                     /\ ret[k].flash_loan_fee = Rat(9 * q[2], 10000)
                     /\ ret[k].net_profit
                           = RSub(GrossProfit(q[2], ds[q[1]]), Rat(9 * q[2], 10000))

\* C24: every flash-loan opportunity is critical when its gross profit is
\* strictly greater than 10000 and high otherwise; a gross profit of exactly
\* 10000 is high.
C24_FlashLoanSeverity ==
    (call.name = "detect_flash_loan_arbitrage" /\ pc = "returned") =>
        \A k \in 1..Len(ret) :
           ret[k].severity =
              IF RLt(Num(10000), ret[k].gross_profit) THEN "critical" ELSE "high"

\* a loan of 10000 buys at 1.0 and sells at 2.0: the gross profit is exactly
\* 10000 and the opportunity is high; the loan of 100000 is critical
C24_Witness ==
    /\ call.name = "detect_flash_loan_arbitrage"
    /\ pc = "returned"
    /\ \E k \in 1..Len(ret) :
          /\ ret[k].gross_profit = Num(10000)
          /\ ret[k].severity = "high"
    /\ \E k \in 1..Len(ret) :
          /\ ret[k].gross_profit = Num(100000)
          /\ ret[k].severity = "critical"

\* detect_triangular_arbitrage has returned
DetectTriangularReturned ==
    call.name = "detect_triangular_arbitrage" /\ pc = "returned"

\* t comes before u in the order of the three nested loops
Before(t, u) ==
    \/ t[1] < u[1]
    \/ t[1] = u[1] /\ t[2] < u[2]
    \/ t[1] = u[1] /\ t[2] = u[2] /\ t[3] < u[3]

\* profit = (1000 / p_i) * (p_j / p_i) * p_k - 1000, p_i # 0
TriangularProfit(t) ==
    LET p_i == call.prices[t[1]].price_usd
        p_j == call.prices[t[2]].price_usd
        p_k == call.prices[t[3]].price_usd
    IN  RSub(RMul(RMul(RDiv(Num(1000), p_i), RDiv(p_j, p_i)), p_k), Num(1000))

\* the triples i < j < k with a profit > 0 and >= min_profit_usd
ProfitableTriples ==
    {t \in (1..Len(call.prices)) \X (1..Len(call.prices)) \X (1..Len(call.prices)) :
        /\ t[1] < t[2] /\ t[2] < t[3]
        /\ ~IsZero(call.prices[t[1]].price_usd)
        /\ RLt(Num(0), TriangularProfit(t))
        /\ RLe(Num(100), TriangularProfit(t))}

\* C25: detect_triangular_arbitrage returns one opportunity for each index
\* triple i < j < k whose profit (1000 / p_i) * (p_j / p_i) * p_k - 1000 is
\* > 0 and >= min_profit_usd, and none for any other triple; the
\* opportunities carry that profit and the path (dex_i, dex_j, dex_k) and
\* stand in the order of the triples.
C25_TriangularOpportunities ==
    DetectTriangularReturned =>
        /\ Len(ret) = Cardinality(ProfitableTriples)
        /\ \A t \in ProfitableTriples :
              LET k == Cardinality({u \in ProfitableTriples : Before(u, t)}) + 1
              IN  /\ ret[k].profit_usd = TriangularProfit(t)
                  /\ ret[k].path = <<call.prices[t[1]].dex, call.prices[t[2]].dex,
                                      call.prices[t[3]].dex>>

\* four quotes of which the triples give two different profits on different
\* paths, and one triple gives none
C25_Witness ==
    /\ DetectTriangularReturned
    /\ Len(call.prices) = 4
    /\ Len(ret) = 3
    /\ ret[1].path # ret[2].path
    /\ ret[1].profit_usd # ret[3].profit_usd

\* C26: when analyze_contract_for_arbitrage returns at least one opportunity,
\* each of which met min_profit_usd on its own, it reports is_profitable =
\* true.
C26_OpportunitiesMeanProfitable ==
    (pc = "returned" /\ call.name = "economic_analysis")
        => (Len(analysis.arbitrage_opportunities) > 0 => analysis.is_profitable)

\* the flash-loan opportunities of the returned analysis
FlashLoanOpportunities ==
    LET IsFlashLoan(opp) == opp.type = "flash_loan_arbitrage"
    IN  SelectSeq(analysis.arbitrage_opportunities, IsFlashLoan)

\* C27: for the discrepancies compare_prices reports for positive contract
\* prices, every flash-loan opportunity has net_profit > 0: the gross profit
\* exceeds the fee of 0.09 % of the loan.
C27_FlashLoanNetProfitPositive ==
    (pc = "returned" /\ call.name = "economic_analysis") =>
        \A k \in 1..Len(FlashLoanOpportunities) :
           /\ RLt(Num(0), FlashLoanOpportunities[k].contract_price)
           /\ RLt(Num(0), FlashLoanOpportunities[k].net_profit)
           /\ RLt(FlashLoanOpportunities[k].flash_loan_fee,
                  FlashLoanOpportunities[k].gross_profit)

\* a contract price of 1.0 against a market average of 1.125, 11.1 % off:
\* the three loans give opportunities with a gross profit of an eighth of
\* the loan
C27_Witness ==
    /\ pc = "returned"
    /\ call.name = "economic_analysis"
    /\ Len(discrepancies) = 1
    /\ discrepancies[1].contract_price = Num(1)
    /\ discrepancies[1].market_price = Rat(9, 8)
    /\ Len(FlashLoanOpportunities) = 3
    /\ FlashLoanOpportunities[1].net_profit = Num(1241)

(***************************************************************************)
(* ChainForker: forks of a chain served by Anvil processes                 *)
(***************************************************************************)
\* Anvil processes started on one ChainForker
MaxForks == 3

\* the largest block number a fork is requested at
MaxBlock == 2

\* the default of fork_at_block's port
DefaultPort == 8545

\* the ports a fork is asked to listen on
Ports == {DefaultPort, DefaultPort + 1}

\* block_number: None for the latest block, or a number
BlockNumbers == {None} \cup {Num(b) : b \in 0..MaxBlock}

\* the pids of the Anvil processes that are running
Live == {pid \in 1..Len(processes) : processes[pid].state = "running"}

\* a running process listens on the port
PortInUse(port) == \E pid \in Live : processes[pid].port = port

\* what Popen and the poll three seconds later find: no anvil executable,
\* a process that has exited, or a process that is running
StartOutcomes == {"FileNotFoundError", "exited", "running"}

\* the process has been sent SIGTERM and waited for, or killed on timeout
Terminated(procs, pid) ==
    [procs EXCEPT ![pid].state = IF @ = "running" THEN "terminated" ELSE @]

ForkInit ==
    /\ results = <<>>
    /\ pc = "idle"
    /\ call = NoCall
    /\ exc = "none"
    /\ discrepancies = <<>>
    /\ analysis = None
    /\ ret = None
    /\ op = [requested |-> None]
    /\ NoForker
    /\ NoDirectory

\* fork_at_block(block_number, port): outcome is what starting Anvil gives
fork_at_block(block_number, port, outcome) ==
    /\ Len(processes) < MaxForks
    /\ outcome = "running" => ~PortInUse(port)
    /\ call' = [name |-> "fork_at_block", block_number |-> block_number,
                port |-> port]
    /\ fork_block' = IF Truthy(block_number) THEN block_number ELSE fork_block
    /\ CASE outcome = "FileNotFoundError" ->
              /\ exc' = "FileNotFoundError"
              /\ pc' = "raised"
              /\ UNCHANGED <<anvil_process, fork_url, processes, ret, op>>
         [] outcome = "exited" ->
              \* RuntimeError; the handler calls stop_fork on the new process
              /\ processes' = Append(processes, [port |-> port, state |-> "exited"])
              /\ anvil_process' = None
              /\ fork_url' = None
              /\ exc' = "RuntimeError"
              /\ pc' = "raised"
              /\ UNCHANGED <<ret, op>>
         [] outcome = "running" ->
              /\ processes' = Append(processes, [port |-> port, state |-> "running"])
              /\ anvil_process' = [pid |-> Len(processes) + 1]
              /\ fork_url' = [host |-> "127.0.0.1", port |-> port]
              /\ ret' = [success |-> TRUE,
                         fork_url |-> fork_url',
                         chain |-> "bsc",
                         block_number |-> fork_block',
                         process_pid |-> Len(processes) + 1]
              /\ exc' = "none"
              /\ pc' = "returned"
              /\ op' = [op EXCEPT !.requested = block_number]
    /\ UNCHANGED <<results, discrepancies, analysis, dirVars>>

stop_fork ==
    /\ call' = [name |-> "stop_fork"]
    /\ IF anvil_process # None
       THEN /\ processes' = Terminated(processes, anvil_process.pid)
            /\ anvil_process' = None
            /\ fork_url' = None
       ELSE UNCHANGED <<anvil_process, fork_url, processes>>
    /\ ret' = None
    /\ exc' = "none"
    /\ pc' = "returned"
    /\ UNCHANGED <<results, discrepancies, analysis, op, fork_block, dirVars>>

is_running ==
    IF anvil_process = None THEN FALSE
    ELSE processes[anvil_process.pid].state = "running"

get_fork_info ==
    /\ call' = [name |-> "get_fork_info"]
    /\ ret' = IF ~is_running THEN None
              ELSE [fork_url |-> fork_url,
                    chain |-> "bsc",
                    block_number |-> fork_block,
                    process_pid |-> anvil_process.pid,
                    is_running |-> TRUE]
    /\ exc' = "none"
    /\ pc' = "returned"
    /\ UNCHANGED <<results, discrepancies, analysis, op, forkVars, dirVars>>

\* a running Anvil process exits on its own; poll() reports it from then on
AnvilExits(pid) ==
    /\ processes' = [processes EXCEPT ![pid].state = "exited"]
    /\ UNCHANGED <<results, pc, call, exc, econVars, op, anvil_process,
                   fork_url, fork_block, dirVars>>

ForkNext ==
    \/ \E block_number \in BlockNumbers, port \in Ports, outcome \in StartOutcomes :
          fork_at_block(block_number, port, outcome)
    \/ stop_fork
    \/ get_fork_info
    \/ \E pid \in Live : AnvilExits(pid)

SpecFork == ForkInit /\ [][ForkNext]_vars

\* C28: after any sequence of fork_at_block and stop_fork, every Anvil
\* process that was started and is still running is the one anvil_process
\* refers to, so at most one fork process is alive.
C28_OnlyReferencedProcessLives ==
    /\ \A pid \in Live : anvil_process # None /\ anvil_process.pid = pid
    /\ Cardinality(Live) <= 1

\* C29: the block_number a successful fork_at_block returns, and the one
\* get_fork_info returns after it, is the block number requested in that
\* call, None for the latest block, whatever was forked or stopped before.
C29_ReportedBlockIsRequested ==
    /\ (call.name = "fork_at_block" /\ pc = "returned")
          => ret.block_number = call.block_number
    /\ (call.name = "get_fork_info" /\ pc = "returned" /\ ret # None)
          => ret.block_number = op.requested

(***************************************************************************)
(* AuditAgent.audit_directory.  The result dicts are objects: `objects`    *)
(* holds them, a reference is an index, and a dict is changed in place     *)
(* through every reference to it.                                          *)
(***************************************************************************)
\* contracts discovered in one directory
MaxContracts == 3

\* the paths rglob("*.sol") may yield
ContractPaths == {[sol |-> k] : k \in 1..MaxContracts}

\* the lists of discovered contracts: no path twice, in any order
Discovered ==
    {l \in ListsUpTo(ContractPaths, MaxContracts) :
        \A i, j \in 1..Len(l) : i # j => l[i] # l[j]}

\* what Slither does in the audit of one contract of the directory
DirectoryOutcomes ==
    {[raises |-> TRUE],
     [raises |-> FALSE, findings |-> <<>>],
     [raises |-> FALSE, findings |-> <<CriticalFinding>>]}

\* self.results = {...} with the references `this` keeps pointing at the
\* dict of the audit before, now cleared and filled again
initialize_results_in_place(objs, this, contract_path) ==
    [objects |-> [objs EXCEPT ![this] =
                    [contract |-> contract_path, analyzers |-> <<>>,
                     vulnerabilities |-> <<>>, summary |-> <<>>]],
     self_results |-> this]

\* self.results = {...}: a new dict, which self.results refers to from now
initialize_results(objs, this, contract_path) ==
    [objects |-> Append(objs,
                    [contract |-> contract_path, analyzers |-> <<>>,
                     vulnerabilities |-> <<>>, summary |-> <<>>]),
     self_results |-> Len(objs) + 1]

\* the four phases and the summary, as they leave the dict res; Mythril,
\* the detector and the AI analyzer report nothing
run_phases(res, slither) ==
    LET r1 == SetAnalyzer(res, "slither",
                 IF slither.raises THEN ErrorRecord
                 ELSE [success |-> TRUE, detectors |-> slither.findings])
        r2 == SetAnalyzer(r1, "mythril", [success |-> TRUE, issues |-> <<>>])
        r3 == [r2 EXCEPT !.vulnerabilities = detect(r2, <<>>)]
        r4 == SetAnalyzer(r3, "ai",
                 [success |-> TRUE, vulnerabilities |-> <<>>,
                  recommendations |-> <<>>])
    IN  generate_summary(r4)

\* self.results['report_path'] = report_path
with_report_path(res) ==
    [k \in DOMAIN res \cup {"report_path"} |->
        IF k = "report_path" THEN "reports/audit_report.json" ELSE res[k]]

\* the entry appended for a contract whose audit raised
error_entry(contract, e) == [contract |-> contract, error |-> e]

DirInit ==
    /\ results = <<>>
    /\ pc = "loop"
    /\ \E contracts \in Discovered, output_dir \in {None, [path |-> "reports"]} :
          call = [name |-> "audit_directory", contracts |-> contracts,
                  output_dir |-> output_dir]
    /\ exc = "none"
    /\ discrepancies = <<>>
    /\ analysis = None
    /\ ret = None
    /\ op = [audited |-> <<>>, raised |-> {}, appended |-> <<>>]
    /\ NoForker
    /\ objects = << <<>> >>
    /\ self_results = 1
    /\ all_results = <<>>

\* one round of the loop: audit_contract on the next contract, and the
\* entry appended for it
AuditNextContract(exists, slither, report_raises) ==
    /\ pc = "loop"
    /\ Len(all_results) < Len(call.contracts)
    /\ call.output_dir = None => ~report_raises
    /\ LET i == Len(all_results) + 1
           contract == call.contracts[i]
           new == initialize_results(objects, self_results, contract)
           audited == run_phases(new.objects[new.self_results], slither)
           raised == ~exists \/ report_raises
           after_audit ==
               IF ~exists THEN objects
               ELSE [new.objects EXCEPT ![new.self_results] =
                        IF report_raises \/ call.output_dir = None THEN audited
                        ELSE with_report_path(audited)]
           entry == error_entry(contract,
                       IF ~exists THEN "FileNotFoundError" ELSE "ReportError")
       IN  /\ objects' = IF raised THEN Append(after_audit, entry) ELSE after_audit
           /\ self_results' = IF exists THEN new.self_results ELSE self_results
           /\ all_results' = Append(all_results,
                                IF raised THEN Len(after_audit) + 1
                                ELSE new.self_results)
           /\ results' = objects'[self_results']
           /\ op' = [audited |-> Append(op.audited, contract),
                     raised |-> IF raised THEN op.raised \cup {i} ELSE op.raised,
                     appended |-> Append(op.appended, objects'[all_results'[i]])]
    /\ UNCHANGED <<pc, call, exc, econVars, forkVars>>

\* no contract, or none left: return [] or return all_results
ReturnAllResults ==
    /\ pc = "loop"
    /\ Len(all_results) = Len(call.contracts)
    /\ ret' = all_results
    /\ pc' = "returned"
    /\ UNCHANGED <<results, call, exc, discrepancies, analysis, op,
                   forkVars, dirVars>>

DirNext ==
    \/ \E exists \in BOOLEAN, slither \in DirectoryOutcomes,
          report_raises \in BOOLEAN :
             AuditNextContract(exists, slither, report_raises)
    \/ ReturnAllResults

SpecDir == DirInit /\ [][DirNext]_vars

\* C30: audit_directory returns one entry per discovered contract, in the
\* order of discovery; the entry of a contract whose audit raised holds the
\* path and the error, every contract is audited whatever happened to the
\* ones before it, and the entries are different objects, each still what it
\* was when it was appended.
C30_OneEntryPerContract ==
    (call.name = "audit_directory" /\ pc = "returned") =>
        /\ Len(ret) = Len(call.contracts)
        /\ op.audited = call.contracts
        /\ \A i \in 1..Len(ret) :
              /\ objects[ret[i]].contract = call.contracts[i]
              /\ objects[ret[i]] = op.appended[i]
              /\ IF i \in op.raised
                 THEN DOMAIN objects[ret[i]] = {"contract", "error"}
                 ELSE /\ "error" \notin DOMAIN objects[ret[i]]
                      /\ "summary" \in DOMAIN objects[ret[i]]
                      /\ DOMAIN objects[ret[i]].analyzers = {"slither", "mythril", "ai"}
        /\ \A i, j \in 1..Len(ret) : i # j => ret[i] # ret[j]

\* three contracts, discovered in another order than that of their names:
\* the audit of the second raises, the first and the third are audited and
\* their results differ
C30_Witness ==
    /\ call.name = "audit_directory"
    /\ pc = "returned"
    /\ Len(ret) = 3
    /\ call.contracts[1].sol = 2
    /\ op.raised = {2}
    /\ objects[ret[1]].summary.total_vulnerabilities = 1
    /\ objects[ret[3]].summary.total_vulnerabilities = 0


====
